---- MODULE Spec2Model ----
(***************************************************************************)
(* Model of the seeding script (lib/seed.py), the schema it populates      *)
(* (lib/models.py) and the interactive session of lib/debug.py.            *)
(*                                                                         *)
(* A store is a record [games, users, reviews]: games and users are the    *)
(* sets of primary keys of the two tables, reviews maps each primary key   *)
(* of the reviews table to its two foreign-key columns.  db is the         *)
(* committed content of seed_db.db, tx is what the open session sees: the  *)
(* committed rows plus the changes the session has made and not yet        *)
(* committed.  The engine is created without a foreign-key pragma          *)
(* (seed.py:10), so SQLite does not enforce the ForeignKey columns.        *)
(***************************************************************************)
EXTENDS Integers, Sequences, FiniteSets

VARIABLES db, tx, pc, i, games, reviews, users, failedAt, run, prev, lastOp

vars == <<db, tx, pc, i, games, reviews, users, failedAt, run, prev, lastOp>>

(* range(100), range(1000), range(500) of create_records, scaled down.     *)
NumGames == 2
NumReviews == 3
NumUsers == 2
(* How many times the script is run in succession.                         *)
MaxRuns == 2
(* How many Review objects the interactive session creates.                *)
MaxSessionReviews == 2

(* A NULL foreign key column / a None relationship attribute.              *)
NULL == 0

EmptyStore == [games |-> {}, users |-> {}, reviews |-> <<>>]

NoOp == [op |-> "none", g |-> NULL, u |-> NULL]

Max(S) == CHOOSE x \in S : \A y \in S : y <= x

Min(S) == CHOOSE x \in S : \A y \in S : x <= y

(* Integer primary key without AUTOINCREMENT: SQLite gives a new row the   *)
(* largest key of the table plus one, and 1 in an empty table.             *)
NextId(ids) == IF ids = {} THEN 1 ELSE Max(ids) + 1

RECURSIVE IdSeq(_, _)
(* The n keys given to n rows inserted one after the other.                *)
IdSeq(ids, n) ==
    IF n <= 0 THEN <<>>
    ELSE <<NextId(ids)>> \o IdSeq(ids \cup {NextId(ids)}, n - 1)

SeqRange(s) == {s[k] : k \in 1..Len(s)}

RECURSIVE SortedSeq(_)
(* The rows of a query in primary-key order.                               *)
SortedSeq(ids) ==
    IF ids = {} THEN <<>>
    ELSE <<Min(ids)>> \o SortedSeq(ids \ {Min(ids)})

NewReview(g, u) == [game_id |-> g, user_id |-> u]

(* [Game() for i in range(100)] once flushed.                              *)
NewGames(s) == IdSeq(s.games, NumGames)

(* Off by one: one Review fewer than asked for.                            *)
NewReviewsShort(s) == IdSeq(DOMAIN s.reviews, NumReviews - 1)

(* [Review() for i in range(1000)] once flushed.                           *)
NewReviews(s) == IdSeq(DOMAIN s.reviews, NumReviews)

(* [User() for i in range(500)] once flushed.                              *)
NewUsers(s) == IdSeq(s.users, NumUsers)

(* session.add_all(games + reviews + users): the new rows, the reviews     *)
(* with both foreign keys NULL.                                            *)
AddAll(s, gs, rs, us) ==
    [games |-> s.games \cup SeqRange(gs),
     users |-> s.users \cup SeqRange(us),
     reviews |-> [r \in DOMAIN s.reviews \cup SeqRange(rs) |->
                    IF r \in DOMAIN s.reviews THEN s.reviews[r]
                    ELSE NewReview(NULL, NULL)]]

(* A delete that forgets the reviews table.                                *)
QueryDeleteKeepsReviews(s, table) ==
    CASE table = "games" -> [s EXCEPT !.games = {}]
      [] table = "reviews" -> s
      [] table = "users" -> [s EXCEPT !.users = {}]

(* A delete that forgets the games table.                                  *)
QueryDeleteKeepsGames(s, table) ==
    CASE table = "games" -> s
      [] table = "reviews" -> [s EXCEPT !.reviews = <<>>]
      [] table = "users" -> [s EXCEPT !.users = {}]

(* session.query(T).delete(): DELETE FROM table, no WHERE clause.          *)
QueryDelete(s, table) ==
    CASE table = "games" -> [s EXCEPT !.games = {}]
      [] table = "reviews" -> [s EXCEPT !.reviews = <<>>]
      [] table = "users" -> [s EXCEPT !.users = {}]

(* session.flush() in place of session.commit(): nothing becomes durable.  *)
Flush(committed, session) == committed

(* session.commit(): the session's view becomes the committed content.     *)
Commit(committed, session) == session

(* random.choice(seq): any element of the list.                            *)
rc(seq) == SeqRange(seq)

(* review.user = rc(users)                                                 *)
SetUser(s, r, u) == [s EXCEPT !.reviews[r].user_id = u]

(* The assignment of the game left out of the loop body.                   *)
SetGameMissing(s, r, g) == s

(* review.game = rc(games)                                                 *)
SetGame(s, r, g) == [s EXCEPT !.reviews[r].game_id = g]

(***************************************************************************)
(* lib/models.py: the relationships and the association proxies.           *)
(***************************************************************************)

(* Game.reviews: the Reviews whose game_id is g, in primary-key order.     *)
GameReviews(s, g) ==
    SortedSeq({r \in DOMAIN s.reviews : s.reviews[r].game_id = g})

(* User.reviews: the Reviews whose user_id is u, in primary-key order.     *)
UserReviews(s, u) ==
    SortedSeq({r \in DOMAIN s.reviews : s.reviews[r].user_id = u})

(* A proxy that lists each associated User once.                           *)
GameUsersDistinct(s, g) ==
    SortedSeq({s.reviews[r].user_id : r \in SeqRange(GameReviews(s, g))})

(* Game.users = association_proxy('reviews', 'user'): review.user of each  *)
(* Review of Game.reviews, None included.                                  *)
GameUsers(s, g) ==
    [k \in 1..Len(GameReviews(s, g)) |-> s.reviews[GameReviews(s, g)[k]].user_id]

(* User.games = association_proxy('reviews', 'game').                      *)
UserGames(s, u) ==
    [k \in 1..Len(UserReviews(s, u)) |-> s.reviews[UserReviews(s, u)[k]].game_id]

(* Reuse and relink: an existing Review of the Game is repointed to the    *)
(* User, a new one is made only when the Game has none.                    *)
ProxyAppendUserRelink(s, g, u) ==
    IF GameReviews(s, g) = <<>>
    THEN [s EXCEPT !.reviews =
            [r \in DOMAIN s.reviews \cup {NextId(DOMAIN s.reviews)} |->
               IF r \in DOMAIN s.reviews THEN s.reviews[r] ELSE NewReview(g, u)]]
    ELSE [s EXCEPT !.reviews[GameReviews(s, g)[1]].user_id = u]

(* g.users.append(u): creator Review(user=u), appended to g.reviews, whose *)
(* backref sets review.game = g.                                           *)
ProxyAppendUser(s, g, u) ==
    [s EXCEPT !.reviews =
       [r \in DOMAIN s.reviews \cup {NextId(DOMAIN s.reviews)} |->
          IF r \in DOMAIN s.reviews THEN s.reviews[r] ELSE NewReview(g, u)]]

(* u.games.append(g): creator Review(game=g), appended to u.reviews, whose *)
(* backref sets review.user = u.                                           *)
ProxyAppendGame(s, u, g) ==
    [s EXCEPT !.reviews =
       [r \in DOMAIN s.reviews \cup {NextId(DOMAIN s.reviews)} |->
          IF r \in DOMAIN s.reviews THEN s.reviews[r] ELSE NewReview(g, u)]]

(***************************************************************************)
(* lib/seed.py: the run of the script.                                     *)
(***************************************************************************)

ResetSteps == {"delete_games", "delete_reviews", "delete_users", "delete_commit"}

(* The statements that talk to the store and can raise.                    *)
PersistSteps == ResetSteps \cup {"create", "relate_commit"}

Init ==
    /\ db = EmptyStore
    /\ tx = EmptyStore
    /\ pc = "delete_games"
    /\ i = 0
    /\ games = <<>>
    /\ reviews = <<>>
    /\ users = <<>>
    /\ failedAt = "none"
    /\ run = 1
    /\ prev = "none"
    /\ lastOp = NoOp

(* seed.py:23                                                              *)
DeleteGames ==
    /\ pc = "delete_games"
    /\ tx' = QueryDelete(tx, "games")
    /\ pc' = "delete_reviews"
    /\ UNCHANGED <<db, i, games, reviews, users, failedAt, run, prev, lastOp>>

(* seed.py:24                                                              *)
DeleteReviews ==
    /\ pc = "delete_reviews"
    /\ tx' = QueryDelete(tx, "reviews")
    /\ pc' = "delete_users"
    /\ UNCHANGED <<db, i, games, reviews, users, failedAt, run, prev, lastOp>>

(* seed.py:25                                                              *)
DeleteUsers ==
    /\ pc = "delete_users"
    /\ tx' = QueryDelete(tx, "users")
    /\ pc' = "delete_commit"
    /\ UNCHANGED <<db, i, games, reviews, users, failedAt, run, prev, lastOp>>

(* seed.py:26                                                              *)
DeleteCommit ==
    /\ pc = "delete_commit"
    /\ db' = Commit(db, tx)
    /\ pc' = "create"
    /\ UNCHANGED <<tx, i, games, reviews, users, failedAt, run, prev, lastOp>>

(* seed.py:14-20, and the assignment of its result at seed.py:39           *)
CreateRecords ==
    /\ pc = "create"
    /\ games' = NewGames(tx)
    /\ reviews' = NewReviews(tx)
    /\ users' = NewUsers(tx)
    /\ tx' = AddAll(tx, games', reviews', users')
    /\ db' = Commit(db, tx')
    /\ i' = 1
    /\ pc' = IF Len(reviews') = 0 THEN "relate_commit" ELSE "relate_user"
    /\ UNCHANGED <<failedAt, run, prev, lastOp>>

(* seed.py:30, for the i-th review of the loop                             *)
RelateUser ==
    /\ pc = "relate_user"
    /\ \E u \in rc(users) : tx' = SetUser(tx, reviews[i], u)
    /\ pc' = "relate_game"
    /\ UNCHANGED <<db, i, games, reviews, users, failedAt, run, prev, lastOp>>

(* seed.py:31, then the loop goes to the next review or ends               *)
RelateGame ==
    /\ pc = "relate_game"
    /\ \E g \in rc(games) : tx' = SetGame(tx, reviews[i], g)
    /\ i' = i + 1
    /\ pc' = IF i < Len(reviews) THEN "relate_user" ELSE "relate_commit"
    /\ UNCHANGED <<db, games, reviews, users, failedAt, run, prev, lastOp>>

(* seed.py:33-35                                                           *)
RelateCommit ==
    /\ pc = "relate_commit"
    /\ db' = Commit(db, tx)
    /\ pc' = "done"
    /\ UNCHANGED <<tx, i, games, reviews, users, failedAt, run, prev, lastOp>>

(* Where a script that ignored the exception raised at p would go on.      *)
NextPc(p) ==
    CASE p = "delete_games" -> "delete_reviews"
      [] p = "delete_reviews" -> "delete_users"
      [] p = "delete_users" -> "delete_commit"
      [] p = "delete_commit" -> "create"
      [] p = "create" -> "relate_commit"
      [] p = "relate_commit" -> "done"

(* The exception caught and ignored: the script goes on to the next        *)
(* statement.                                                              *)
FailSwallowed ==
    /\ pc \in PersistSteps
    /\ failedAt' = pc
    /\ pc' = NextPc(pc)
    /\ tx' = db
    /\ UNCHANGED <<db, i, games, reviews, users, run, prev, lastOp>>

(* A statement that talks to the store raises.  Nothing in __main__        *)
(* catches the exception: the script ends, and the changes the session     *)
(* had not committed are lost with its connection.                         *)
Fail ==
    /\ pc \in PersistSteps
    /\ failedAt' = pc
    /\ pc' = "failed"
    /\ tx' = db
    /\ UNCHANGED <<db, i, games, reviews, users, run, prev, lastOp>>

(* The script is run again on the store the previous run left.             *)
Rerun ==
    /\ pc \in {"done", "failed"}
    /\ run < MaxRuns
    /\ run' = run + 1
    /\ prev' = pc
    /\ pc' = "delete_games"
    /\ tx' = db
    /\ i' = 0
    /\ games' = <<>>
    /\ reviews' = <<>>
    /\ users' = <<>>
    /\ failedAt' = "none"
    /\ UNCHANGED <<db, lastOp>>

Next ==
    \/ DeleteGames
    \/ DeleteReviews
    \/ DeleteUsers
    \/ DeleteCommit
    \/ CreateRecords
    \/ RelateUser
    \/ RelateGame
    \/ RelateCommit
    \/ Fail
    \/ Rerun

Spec == Init /\ [][Next]_vars

(***************************************************************************)
(* lib/debug.py: a session on the store, the model classes at hand.        *)
(***************************************************************************)

InitSession ==
    /\ db = EmptyStore
    /\ tx = EmptyStore
    /\ pc = "debug"
    /\ i = 0
    /\ games = <<>>
    /\ reviews = <<>>
    /\ users = <<>>
    /\ failedAt = "none"
    /\ run = 1
    /\ prev = "none"
    /\ lastOp = NoOp

(* session.add(Game())                                                     *)
AddGame ==
    /\ Cardinality(tx.games) < NumGames
    /\ tx' = [tx EXCEPT !.games = @ \cup {NextId(tx.games)}]
    /\ lastOp' = NoOp
    /\ UNCHANGED <<db, pc, i, games, reviews, users, failedAt, run, prev>>

(* session.add(User())                                                     *)
AddUser ==
    /\ Cardinality(tx.users) < NumUsers
    /\ tx' = [tx EXCEPT !.users = @ \cup {NextId(tx.users)}]
    /\ lastOp' = NoOp
    /\ UNCHANGED <<db, pc, i, games, reviews, users, failedAt, run, prev>>

(* session.add(Review(game_id=g, user_id=u)), either column left NULL or   *)
(* set to the key of an existing row.                                      *)
AddReview ==
    /\ Cardinality(DOMAIN tx.reviews) < MaxSessionReviews
    /\ \E g \in tx.games \cup {NULL}, u \in tx.users \cup {NULL} :
          tx' = [tx EXCEPT !.reviews =
                   [r \in DOMAIN tx.reviews \cup {NextId(DOMAIN tx.reviews)} |->
                      IF r \in DOMAIN tx.reviews THEN tx.reviews[r]
                      ELSE NewReview(g, u)]]
    /\ lastOp' = NoOp
    /\ UNCHANGED <<db, pc, i, games, reviews, users, failedAt, run, prev>>

(* g.users.append(u)                                                       *)
AppendUser ==
    /\ Cardinality(DOMAIN tx.reviews) < MaxSessionReviews
    /\ \E g \in tx.games, u \in tx.users :
          /\ tx' = ProxyAppendUser(tx, g, u)
          /\ lastOp' = [op |-> "append_user", g |-> g, u |-> u]
    /\ UNCHANGED <<db, pc, i, games, reviews, users, failedAt, run, prev>>

(* u.games.append(g)                                                       *)
AppendGame ==
    /\ Cardinality(DOMAIN tx.reviews) < MaxSessionReviews
    /\ \E g \in tx.games, u \in tx.users :
          /\ tx' = ProxyAppendGame(tx, u, g)
          /\ lastOp' = [op |-> "append_game", g |-> g, u |-> u]
    /\ UNCHANGED <<db, pc, i, games, reviews, users, failedAt, run, prev>>

NextSession ==
    \/ AddGame
    \/ AddUser
    \/ AddReview
    \/ AppendUser
    \/ AppendGame

SpecSession == InitSession /\ [][NextSession]_vars

(***************************************************************************)
(* Properties.                                                             *)
(***************************************************************************)

Count(seq, v) == Cardinality({k \in 1..Len(seq) : seq[k] = v})

Links(s, g, u) ==
    {r \in DOMAIN s.reviews : s.reviews[r].game_id = g /\ s.reviews[r].user_id = u}

AllNull(s) ==
    \A r \in DOMAIN s.reviews :
        s.reviews[r].game_id = NULL /\ s.reviews[r].user_id = NULL

Cardinalities(s) ==
    /\ Cardinality(s.games) = NumGames
    /\ Cardinality(DOMAIN s.reviews) = NumReviews
    /\ Cardinality(s.users) = NumUsers

(* The state right after create_records has committed and returned.        *)
JustCreated == pc = "relate_user" /\ i = 1

(* C1: once relate_one_to_many has committed, the committed reviews are    *)
(* the NumReviews reviews of this run, and each has a non-null game_id     *)
(* that is the key of a Game created in this run and a non-null user_id    *)
(* that is the key of a User created in this run, whatever was drawn.      *)
C1_RelatedToCreated ==
    pc = "done" =>
        /\ Len(games) = NumGames /\ SeqRange(games) = db.games
        /\ Len(users) = NumUsers /\ SeqRange(users) = db.users
        /\ Len(reviews) = NumReviews /\ SeqRange(reviews) = DOMAIN db.reviews
        /\ Cardinality(DOMAIN db.reviews) = NumReviews
        /\ \A r \in DOMAIN db.reviews :
              /\ db.reviews[r].game_id # NULL
              /\ db.reviews[r].game_id \in SeqRange(games)
              /\ db.reviews[r].user_id # NULL
              /\ db.reviews[r].user_id \in SeqRange(users)

(* A completed run in which the draws gave two reviews different games and *)
(* two reviews different users.                                            *)
C1_Witness ==
    /\ pc = "done"
    /\ \E r, q \in DOMAIN db.reviews :
          /\ db.reviews[r].game_id # db.reviews[q].game_id
          /\ db.reviews[r].user_id # db.reviews[q].user_id

(* C2: right after create_records has committed on the store the reset     *)
(* emptied, the committed store holds exactly NumGames games, NumReviews   *)
(* reviews and NumUsers users, and both references of every review are     *)
(* NULL.                                                                   *)
C2_CreatedUnrelated ==
    JustCreated => Cardinalities(db) /\ AllNull(db) /\ tx = db

(* create_records has committed in a run that started on a related store.  *)
C2_Witness == JustCreated /\ prev = "done" /\ tx.games # {}

(* C3: once delete_records has committed, each of the three tables is      *)
(* empty, whatever the store held before.                                  *)
C3_ResetEmpties ==
    pc = "create" =>
        db.games = {} /\ DOMAIN db.reviews = {} /\ db.users = {}

(* The reset has committed in a run that started on the fully related      *)
(* store a completed run left.                                             *)
C3_Witness == pc = "create" /\ prev = "done" /\ run > 1

(* C4: every completed run leaves exactly NumGames games, NumReviews       *)
(* reviews and NumUsers users, the first as well as one that started on    *)
(* the store of a completed run: rows do not accumulate.                   *)
C4_SameCardinalities == pc = "done" => Cardinalities(db)

(* The second of two runs in succession has completed.                     *)
C4_Witness == pc = "done" /\ prev = "done" /\ run = 2 /\ Cardinalities(db)

NoDangling(s) ==
    \A r \in DOMAIN s.reviews :
        /\ s.reviews[r].game_id # NULL => s.reviews[r].game_id \in s.games
        /\ s.reviews[r].user_id # NULL => s.reviews[r].user_id \in s.users

(* C5: in every state, those inside the reset included, a review with a    *)
(* non-null game_id references a game row that exists and a review with a  *)
(* non-null user_id references a user row that exists, in the session as   *)
(* in the committed store.                                                 *)
C5_NoDanglingReference == NoDangling(tx) /\ NoDangling(db)

C7_AppendCreatesOneReview ==
    [][lastOp'.op \in {"append_user", "append_game"} =>
          /\ tx'.games = tx.games
          /\ tx'.users = tx.users
          /\ \E r \in DOMAIN tx'.reviews \ DOMAIN tx.reviews :
                /\ DOMAIN tx'.reviews = DOMAIN tx.reviews \cup {r}
                /\ tx'.reviews[r] = NewReview(lastOp'.g, lastOp'.u)
          /\ \A q \in DOMAIN tx.reviews : tx'.reviews[q] = tx.reviews[q]]_vars

(* An append has just linked a Game and a User that a review linked        *)
(* already.                                                                *)
C7_Witness ==
    /\ lastOp.op = "append_user"
    /\ Cardinality(Links(tx, lastOp.g, lastOp.u)) >= 2

(* C8: the reset deletes the reviews before the games and the users: no    *)
(* step empties the games table or the users table while the reviews       *)
(* table still holds rows.                                                 *)
C8_ReviewsDeletedFirst ==
    [][(\/ tx.games # {} /\ tx'.games = {}
        \/ tx.users # {} /\ tx'.users = {})
          => DOMAIN tx.reviews = {}]_vars

(* C9: when the commit of relate_one_to_many fails, the committed store    *)
(* still holds what create_records committed: NumGames games, NumReviews   *)
(* reviews, NumUsers users, every reference NULL.                          *)
C9_CreateSurvivesRelateFailure ==
    failedAt = "relate_commit" => Cardinalities(db) /\ AllNull(db)

(* The run has failed at the commit of relate_one_to_many.                 *)
C9_Witness == failedAt = "relate_commit" /\ pc = "failed" /\ db.games # {}

(* C10: after a failure the run is over: it is in the failed state, and a  *)
(* failure in the reset means create_records never ran in this run, a      *)
(* failure in create_records that nothing of it was committed and          *)
(* relate_one_to_many never ran.                                           *)
C10_FailureAborts ==
    failedAt # "none" =>
        /\ pc = "failed"
        /\ failedAt \in ResetSteps \cup {"create"} =>
              games = <<>> /\ reviews = <<>> /\ users = <<>>
        /\ failedAt = "create" => db = EmptyStore

(* create_records has failed in a run that started on a related store.     *)
C10_Witness == pc = "failed" /\ failedAt = "create" /\ prev = "done"

====
